---- MODULE Spec2Model ----
(***************************************************************************)
(* FPEInteger (src/aesffx.py): format-preserving encryption of integers in *)
(* [0, radix^width) by a two-branch Feistel network with additive mixing,  *)
(* driven by a keyed block cipher.                                         *)
(*                                                                         *)
(* One engine is constructed, then two caller threads run encrypt and      *)
(* decrypt on it, one loop iteration per step.  Every variable named after *)
(* an attribute of self is that attribute; message, work, i_from, i_to and *)
(* round_num are the locals of one call, one copy per thread.              *)
(***************************************************************************)
EXTENDS Integers, Sequences, FiniteSets, TLC

\* ---------------------------------------------------------------- bounds
MaxRadix == 3
MaxWidth == 3
MaxRounds == 2
\* number of distinct cipher keys the constructor is tried with
NumKeys == 3
\* engines with a larger domain than this are not constructed
MaxBlockSize == 9
\* Width in bits of one 'Q' field of struct.pack("<QQ", ...).  The code uses
\* 64; 2^64 does not fit TLC's integers, so the cipher block is scaled down:
\* 2**32, 2**64 and 2**128 of the source become 2^(WordBits \div 2),
\* 2^WordBits and 2^(2*WordBits).
WordBits == 2

Threads == {"t1", "t2"}
Keys == 1..NumKeys

VARIABLES
    constructed,         \* FPEInteger.__init__ has run
    key, radix, width,   \* the constructor's arguments (rounds is kept on self)
    rounds,              \* self.rounds
    modulos,             \* self.modulos, indexed 0..1 as in the source
    block_size,          \* self.block_size
    block_encrypt_func,  \* which bound method self.block_encrypt_func is
    pc,                  \* per thread: where its current call stands
    op,                  \* per thread: "encrypt" or "decrypt"
    message,             \* per thread: the argument of the call
    work,                \* per thread: the working pair
    i_from, i_to,        \* per thread: the Feistel indices
    round_num,           \* per thread: the loop variable
    ret,                 \* per thread: the value returned
    exc,                 \* per thread: the exception raised, "" if none
    trace                \* per thread: the loop iterations of the call so far

vars == <<constructed, key, radix, width, rounds, modulos, block_size,
          block_encrypt_func, pc, op, message, work, i_from, i_to,
          round_num, ret, exc, trace>>

engine == <<constructed, key, radix, width, rounds, modulos, block_size,
            block_encrypt_func>>

locals == <<pc, op, message, work, i_from, i_to, round_num, ret, exc, trace>>

\* ------------------------------------------------------------- arithmetic
\* Python's b ** e for e >= 0 (0 ** 0 is 1)
RECURSIVE Pow(_, _)
Pow(b, e) == IF e = 0 THEN 1 ELSE b * Pow(b, e - 1)

\* a two-element Python list, indexed 0 and 1
Pair(a, b) == [i \in 0..1 |-> IF i = 0 THEN a ELSE b]

Pow2_32 == 2 ^ (WordBits \div 2)
Pow2_64 == 2 ^ WordBits
Pow2_128 == 2 ^ (2 * WordBits)

\* ------------------------------------------------------------ construction
part_widths_floor(w) == Pair(w \div 2, w \div 2)

\* part_widths = [(width + 1) // 2, width // 2]
part_widths(w) == Pair((w + 1) \div 2, w \div 2)

\* the choice between block_encrypt_func_small and block_encrypt_func_large
pick_block_encrypt_func(bs) ==
    IF (bs <= Pow2_32) \/ ((bs <= Pow2_64) /\ (Pow2_128 % bs = 0))
    THEN "small" ELSE "large"

\* FPEInteger.__init__: no argument is validated
Construct(k, rnds, rdx, wdt) ==
    /\ ~constructed
    /\ Pow(rdx, wdt) <= MaxBlockSize
    /\ constructed' = TRUE
    /\ key' = k
    /\ radix' = rdx
    /\ width' = wdt
    /\ rounds' = rnds
    /\ modulos' = [i \in 0..1 |-> Pow(rdx, part_widths(wdt)[i])]
    /\ block_size' = Pow(rdx, wdt)
    /\ block_encrypt_func' = pick_block_encrypt_func(Pow(rdx, wdt))
    /\ UNCHANGED locals

\* ---------------------------------------------------------- pure helpers
\* FPEInteger.split_message; Python's % and // floor, as TLA+'s do
split_message(m) ==
    Pair(m % modulos[0], (m \div modulos[0]) % modulos[1])

\* FPEInteger.join_message
join_message(w) == (w[1] * modulos[0]) + w[0]

\* self.aes_obj.encrypt(struct.pack("<QQ", round_num, work_val)): the keyed
\* cipher is outside the repository; it is a fixed function of the key and the
\* packed pair, here one irregular function per key onto the scaled block.
aes_encrypt(k, rn, wv) ==
    ((k + 2) * (wv * wv + 3 * wv + 5 * rn + 1) + k * rn * wv + 7 * k) % Pow2_128

\* number of cipher calls the running calls have made so far
CipherCalls == Len(trace["t1"]) + Len(trace["t2"])

\* a cipher object whose output depends on how often it was called
block_encrypt_stateful(work_val, rn, out_modulo) ==
    ((aes_encrypt(key, rn, work_val) \div Pow2_64) + CipherCalls) % out_modulo

\* struct.unpack("<8xQ", ...): the upper word of the block
block_encrypt_func_small(work_val, rn, out_modulo) ==
    (aes_encrypt(key, rn, work_val) \div Pow2_64) % out_modulo

\* struct.unpack("<QQ", ...): (temp_hi << 64) | temp_lo
block_encrypt_func_large(work_val, rn, out_modulo) ==
    LET temp_lo == aes_encrypt(key, rn, work_val) % Pow2_64
        temp_hi == aes_encrypt(key, rn, work_val) \div Pow2_64
    IN  ((temp_hi * Pow2_64) + temp_lo) % out_modulo

\* self.block_encrypt_func(work_val, round_num, out_modulo)
block_encrypt(work_val, rn, out_modulo) ==
    IF block_encrypt_func = "small"
    THEN block_encrypt_func_small(work_val, rn, out_modulo)
    ELSE block_encrypt_func_large(work_val, rn, out_modulo)

encrypt_indices_swapped == Pair(1, 0)

\* i_from, i_to = 0, 1
encrypt_indices == Pair(0, 1)

decrypt_indices_as_encrypt == Pair(0, 1)

decrypt_indices_swapped == Pair(rounds % 2, (rounds - 1) % 2)

\* i_from, i_to = (self.rounds - 1) % 2, self.rounds % 2
decrypt_indices == Pair((rounds - 1) % 2, rounds % 2)

encrypt_round_overwrite(w, f, t, rn) ==
    [w EXCEPT ![t] = block_encrypt(w[f], rn, modulos[t]) % modulos[t]]

encrypt_round_unreduced(w, f, t, rn) ==
    [w EXCEPT ![t] = w[t] + block_encrypt(w[f], rn, modulos[t])]

\* one iteration of encrypt's loop on the working pair
encrypt_round(w, f, t, rn) ==
    [w EXCEPT ![t] = (w[t] + block_encrypt(w[f], rn, modulos[t])) % modulos[t]]

decrypt_round_adds(w, f, t, rn) ==
    [w EXCEPT ![t] = (w[t] + block_encrypt(w[f], rn, modulos[t])) % modulos[t]]

\* one iteration of decrypt's loop on the working pair
decrypt_round(w, f, t, rn) ==
    [w EXCEPT ![t] = (w[t] - block_encrypt(w[f], rn, modulos[t])) % modulos[t]]

\* ------------------------------------------------------------ the calls
NoWork == Pair(0, 0)

\* message % self.modulos[0] raises when a modulus is 0
SplitRaises == modulos[0] = 0 \/ modulos[1] = 0

\* the arguments a caller passes: the domain and one value on either side
Messages == (0 - 1)..block_size

Enter(t, o, m, idx, first) ==
    /\ op' = [op EXCEPT ![t] = o]
    /\ message' = [message EXCEPT ![t] = m]
    /\ IF SplitRaises
       THEN /\ pc' = [pc EXCEPT ![t] = "raised"]
            /\ exc' = [exc EXCEPT ![t] = "ZeroDivisionError"]
            /\ UNCHANGED <<work, i_from, i_to, round_num>>
       ELSE /\ pc' = [pc EXCEPT ![t] = "loop"]
            /\ work' = [work EXCEPT ![t] = split_message(m)]
            /\ i_from' = [i_from EXCEPT ![t] = idx[0]]
            /\ i_to' = [i_to EXCEPT ![t] = idx[1]]
            /\ round_num' = [round_num EXCEPT ![t] = first]
            /\ UNCHANGED exc
    /\ UNCHANGED <<ret, trace>>
    /\ UNCHANGED engine

\* encrypt, lines 148-149: split the message (no range check), set the
\* indices, enter the loop
EncryptEnter(t, m) ==
    /\ constructed
    /\ pc[t] = "idle"
    /\ m \in Messages
    /\ Enter(t, "encrypt", m, encrypt_indices, 0)

\* decrypt, lines 158-159
DecryptEnter(t, m) ==
    /\ constructed
    /\ pc[t] = "idle"
    /\ m \in Messages
    /\ Enter(t, "decrypt", m, decrypt_indices, rounds - 1)

Step(t, w2, next) ==
    /\ trace' = [trace EXCEPT ![t] = Append(@,
                   [round_num |-> round_num[t],
                    work_val |-> work[t][i_from[t]],
                    out_modulo |-> modulos[i_to[t]],
                    i_from |-> i_from[t],
                    i_to |-> i_to[t],
                    before |-> work[t],
                    after |-> w2])]
    /\ work' = [work EXCEPT ![t] = w2]
    /\ i_from' = [i_from EXCEPT ![t] = i_to[t]]
    /\ i_to' = [i_to EXCEPT ![t] = i_from[t]]
    /\ round_num' = [round_num EXCEPT ![t] = next]
    /\ UNCHANGED <<pc, op, message, ret, exc>>
    /\ UNCHANGED engine

\* encrypt, lines 150-153: one iteration of for round_num in range(self.rounds)
EncryptRound(t) ==
    /\ pc[t] = "loop"
    /\ op[t] = "encrypt"
    /\ round_num[t] < rounds
    /\ Step(t, encrypt_round(work[t], i_from[t], i_to[t], round_num[t]),
            round_num[t] + 1)

\* decrypt, lines 160-163: one iteration of range(self.rounds - 1, -1, -1)
DecryptRound(t) ==
    /\ pc[t] = "loop"
    /\ op[t] = "decrypt"
    /\ round_num[t] >= 0
    /\ Step(t, decrypt_round(work[t], i_from[t], i_to[t], round_num[t]),
            round_num[t] - 1)

Exit(t) ==
    /\ pc' = [pc EXCEPT ![t] = "done"]
    /\ ret' = [ret EXCEPT ![t] = join_message(work[t])]
    /\ UNCHANGED <<op, message, work, i_from, i_to, round_num, exc, trace>>
    /\ UNCHANGED engine

\* encrypt, line 154: the loop is exhausted, return self.join_message(work)
EncryptReturn(t) ==
    /\ pc[t] = "loop"
    /\ op[t] = "encrypt"
    /\ round_num[t] >= rounds
    /\ Exit(t)

\* decrypt, line 164
DecryptReturn(t) ==
    /\ pc[t] = "loop"
    /\ op[t] = "decrypt"
    /\ round_num[t] < 0
    /\ Exit(t)

\* the caller has consumed the result or the exception; the call's locals die
Forget(t) ==
    /\ pc[t] \in {"done", "raised"}
    /\ pc' = [pc EXCEPT ![t] = "idle"]
    /\ op' = [op EXCEPT ![t] = ""]
    /\ message' = [message EXCEPT ![t] = 0]
    /\ work' = [work EXCEPT ![t] = NoWork]
    /\ i_from' = [i_from EXCEPT ![t] = 0]
    /\ i_to' = [i_to EXCEPT ![t] = 0]
    /\ round_num' = [round_num EXCEPT ![t] = 0]
    /\ ret' = [ret EXCEPT ![t] = 0]
    /\ exc' = [exc EXCEPT ![t] = ""]
    /\ trace' = [trace EXCEPT ![t] = <<>>]
    /\ UNCHANGED engine

\* ----------------------------------------------------- the specification
Init ==
    /\ constructed = FALSE
    /\ key = 0
    /\ radix = 0
    /\ width = 0
    /\ rounds = 0
    /\ modulos = NoWork
    /\ block_size = 0
    /\ block_encrypt_func = ""
    /\ pc = [t \in Threads |-> "idle"]
    /\ op = [t \in Threads |-> ""]
    /\ message = [t \in Threads |-> 0]
    /\ work = [t \in Threads |-> NoWork]
    /\ i_from = [t \in Threads |-> 0]
    /\ i_to = [t \in Threads |-> 0]
    /\ round_num = [t \in Threads |-> 0]
    /\ ret = [t \in Threads |-> 0]
    /\ exc = [t \in Threads |-> ""]
    /\ trace = [t \in Threads |-> <<>>]

Next ==
    \/ \E k \in Keys, rnds \in 0..MaxRounds, rdx \in 0..MaxRadix, wdt \in 0..MaxWidth :
           Construct(k, rnds, rdx, wdt)
    \/ \E t \in Threads, m \in (0 - 1)..MaxBlockSize : EncryptEnter(t, m)
    \/ \E t \in Threads, m \in (0 - 1)..MaxBlockSize : DecryptEnter(t, m)
    \/ \E t \in Threads : EncryptRound(t)
    \/ \E t \in Threads : DecryptRound(t)
    \/ \E t \in Threads : EncryptReturn(t)
    \/ \E t \in Threads : DecryptReturn(t)
    \/ \E t \in Threads : Forget(t)

Spec == Init /\ [][Next]_vars

\* ------------------------------------------------- the calls run alone
RECURSIVE encrypt_loop(_, _, _, _)
encrypt_loop(w, f, t, rn) ==
    IF rn >= rounds THEN w
    ELSE encrypt_loop(encrypt_round(w, f, t, rn), t, f, rn + 1)

\* FPEInteger.encrypt as one uninterrupted call
encrypt(m) ==
    join_message(encrypt_loop(split_message(m), encrypt_indices[0],
                              encrypt_indices[1], 0))

RECURSIVE decrypt_loop(_, _, _, _)
decrypt_loop(w, f, t, rn) ==
    IF rn < 0 THEN w
    ELSE decrypt_loop(decrypt_round(w, f, t, rn), t, f, rn - 1)

\* FPEInteger.decrypt as one uninterrupted call
decrypt(m) ==
    join_message(decrypt_loop(split_message(m), decrypt_indices[0],
                              decrypt_indices[1], rounds - 1))

\* ------------------------------------------------------------ properties
\* the parameters the documentation calls non-degenerate
ValidEngine == constructed /\ rounds >= 1 /\ radix >= 2 /\ width >= 1

InRange(m) == 0 <= m /\ m < block_size

Returned(t, o) == pc[t] = "done" /\ op[t] = o

\* C1: on an engine with rounds >= 1, radix >= 2, width >= 1, whenever
\* encrypt(m) has returned c for an m of the domain and decrypt(c) has
\* returned, decrypt returned m.
C1_DecryptInvertsEncrypt ==
    \A a \in Threads, b \in Threads :
        ( /\ ValidEngine
          /\ Returned(a, "encrypt") /\ InRange(message[a])
          /\ Returned(b, "decrypt") /\ message[b] = ret[a] )
        => ret[b] = message[a]

C1_Witness ==
    \E a \in Threads, b \in Threads :
        /\ ValidEngine /\ rounds = 2 /\ width = 3
        /\ Returned(a, "encrypt") /\ InRange(message[a])
        /\ ret[a] # message[a]
        /\ Returned(b, "decrypt") /\ message[b] = ret[a]
        /\ ret[b] = message[a]

\* C2: on one engine two encrypt calls on distinct messages of the domain
\* return distinct values, and encrypt over the whole domain takes block_size
\* distinct values, also when the two sub-blocks have unequal moduli.
C2_EncryptInjective ==
    /\ \A a \in Threads, b \in Threads :
        ( /\ ValidEngine
          /\ Returned(a, "encrypt") /\ InRange(message[a])
          /\ Returned(b, "encrypt") /\ InRange(message[b])
          /\ message[a] # message[b] )
        => ret[a] # ret[b]
    /\ (ValidEngine /\ \A t \in Threads : Returned(t, "encrypt"))
        => Cardinality({encrypt(m) : m \in 0..(block_size - 1)}) = block_size

C2_Witness ==
    \E a \in Threads, b \in Threads :
        /\ ValidEngine /\ rounds = 2 /\ modulos[0] # modulos[1]
        /\ modulos[1] > 1
        /\ Returned(a, "encrypt") /\ InRange(message[a])
        /\ Returned(b, "encrypt") /\ InRange(message[b])
        /\ message[a] # message[b]
        /\ ret[a] # message[a] /\ ret[b] # message[b]

\* C3: for a message of the domain the working pair stays inside its moduli
\* from the split on, after every round, and the value encrypt or decrypt
\* returns lies in [0, block_size).
C3_RangePreserved ==
    \A t \in Threads :
        (ValidEngine /\ pc[t] \in {"loop", "done"} /\ InRange(message[t]))
        => /\ \A i \in 0..1 : 0 <= work[t][i] /\ work[t][i] < modulos[i]
           /\ pc[t] = "done" => (0 <= ret[t] /\ ret[t] < block_size)

C3_Witness ==
    \E a \in Threads, b \in Threads :
        /\ ValidEngine /\ rounds = 2 /\ block_size > 4
        /\ Returned(a, "encrypt") /\ InRange(message[a])
        /\ Len(trace[a]) = 2
        /\ trace[a][1].after # trace[a][1].before
        /\ trace[a][2].after # trace[a][2].before
        /\ Returned(b, "decrypt") /\ InRange(message[b])
        /\ ret[b] # message[b]

\* C4: whenever decrypt(c) has returned m for a c of the domain and
\* encrypt(m) has returned, encrypt returned c.
C4_EncryptInvertsDecrypt ==
    \A a \in Threads, b \in Threads :
        ( /\ ValidEngine
          /\ Returned(b, "decrypt") /\ InRange(message[b])
          /\ Returned(a, "encrypt") /\ message[a] = ret[b] )
        => ret[a] = message[b]

C4_Witness ==
    \E a \in Threads, b \in Threads :
        /\ ValidEngine /\ rounds = 2 /\ radix = 3
        /\ Returned(b, "decrypt") /\ InRange(message[b])
        /\ ret[b] # message[b]
        /\ Returned(a, "encrypt") /\ message[a] = ret[b]
        /\ ret[a] = message[b]

\* C5: on an engine with valid parameters a call whose argument lies outside
\* [0, block_size) never runs on a wrapped argument and never returns a value:
\* it ends with OutOfRange.
C5_OutOfRangeRejected ==
    \A t \in Threads :
        (ValidEngine /\ pc[t] # "idle" /\ ~InRange(message[t]))
        => (pc[t] = "raised" /\ exc[t] = "OutOfRange")

\* C6: no engine is ever constructed with radix < 2, width < 1 or rounds < 1.
C6_DegenerateRejected ==
    constructed => (radix >= 2 /\ width >= 1 /\ rounds >= 1)

\* the configuration a constructed engine holds
C7_Config == <<rounds, modulos, block_size, block_encrypt_func, key>>

\* every returned value is the uninterrupted call's value
C7_SameAsAlone ==
    /\ \A t \in Threads :
         /\ Returned(t, "encrypt") => ret[t] = encrypt(message[t])
         /\ Returned(t, "decrypt") => ret[t] = decrypt(message[t])
    /\ \A a \in Threads, b \in Threads :
         (pc[a] = "done" /\ pc[b] = "done" /\ op[a] = op[b]
            /\ message[a] = message[b])
         => ret[a] = ret[b]

\* C7: no step of encrypt or decrypt changes the engine's configuration, and
\* however the calls of the two threads interleave, a call that returns
\* returns what the same call returns when run alone, so two calls with the
\* same argument return the same value.
C7_Stateless ==
    /\ [][constructed => C7_Config' = C7_Config]_vars
    /\ []C7_SameAsAlone

C7_Witness ==
    /\ ValidEngine /\ rounds = 2 /\ block_size > 4
    /\ Returned("t1", "encrypt") /\ Returned("t2", "encrypt")
    /\ message["t1"] = message["t2"] /\ InRange(message["t1"])
    /\ ret["t1"] # message["t1"]

\* C8: while decrypt runs on the value encrypt returned for a message of the
\* domain, its first iteration uses from = (rounds-1) mod 2, to = rounds mod 2,
\* and its iteration for round r calls the round function with the work value,
\* round number and modulus of encrypt's round r, on the same indices, and
\* leaves the working pair encrypt had before round r.
C8_RoundsMatch ==
    \A a \in Threads, b \in Threads :
        ( /\ ValidEngine
          /\ Returned(a, "encrypt") /\ InRange(message[a])
          /\ op[b] = "decrypt" /\ pc[b] \in {"loop", "done"}
          /\ message[b] = ret[a] )
        => /\ Len(trace[b]) <= Len(trace[a])
           /\ \A j \in 1..Len(trace[b]) :
                LET d == trace[b][j]
                    e == trace[a][rounds - j + 1]
                IN  /\ d.round_num = rounds - j
                    /\ e.round_num = rounds - j
                    /\ d.work_val = e.work_val
                    /\ d.out_modulo = e.out_modulo
                    /\ d.i_from = e.i_from /\ d.i_to = e.i_to
                    /\ d.after = e.before
                    /\ d.before[d.i_from] = d.after[d.i_from]
                    /\ e.before[e.i_from] = e.after[e.i_from]
           /\ Len(trace[b]) >= 1 =>
                /\ trace[b][1].i_from = (rounds - 1) % 2
                /\ trace[b][1].i_to = rounds % 2

C8_Witness ==
    \E a \in Threads, b \in Threads :
        /\ ValidEngine /\ rounds = 2 /\ block_size > 4
        /\ Returned(a, "encrypt") /\ InRange(message[a])
        /\ trace[a][1].after # trace[a][1].before
        /\ trace[a][2].after # trace[a][2].before
        /\ Returned(b, "decrypt") /\ message[b] = ret[a]
        /\ Len(trace[b]) = 2

\* C9: modulos are radix^ceil(width/2) and radix^floor(width/2), so
\* modulos[0] * modulos[1] = block_size; the pair split_message makes of a
\* message of the domain joins back to the message, and the value
\* join_message makes of a pair inside the moduli splits back to the pair.
C9_SplitJoinInverse ==
    ValidEngine =>
        /\ modulos[0] = Pow(radix, width - (width \div 2))
        /\ modulos[1] = Pow(radix, width \div 2)
        /\ modulos[0] * modulos[1] = block_size
        /\ \A t \in Threads :
            /\ (pc[t] = "loop" /\ trace[t] = <<>> /\ InRange(message[t]))
                 => join_message(work[t]) = message[t]
            /\ (pc[t] = "done" /\ InRange(message[t]))
                 => split_message(ret[t]) = work[t]
        /\ (\A t \in Threads : pc[t] = "done") =>
            /\ \A m \in 0..(block_size - 1) :
                 join_message(split_message(m)) = m
            /\ \A w0 \in 0..(modulos[0] - 1), w1 \in 0..(modulos[1] - 1) :
                 split_message(join_message(Pair(w0, w1))) = Pair(w0, w1)

C9_Witness ==
    \E a \in Threads, b \in Threads :
        /\ ValidEngine /\ width = 3
        /\ pc[a] = "loop" /\ trace[a] = <<>> /\ InRange(message[a])
        /\ work[a][1] > 0 /\ work[a][0] > 0
        /\ pc[b] = "done" /\ InRange(message[b]) /\ ret[b] > modulos[0]

\* C10: with rounds = 1 encrypt returns a value with the low sub-block of its
\* message, and with width = 1 as well it returns the message.
C10_OneRoundKeepsLow ==
    \A t \in Threads :
        (ValidEngine /\ rounds = 1 /\ Returned(t, "encrypt")
            /\ InRange(message[t]))
        => /\ ret[t] % modulos[0] = message[t] % modulos[0]
           /\ width = 1 => ret[t] = message[t]

C10_Witness ==
    \E t \in Threads :
        /\ ValidEngine /\ rounds = 1 /\ width > 1
        /\ Returned(t, "encrypt") /\ InRange(message[t])
        /\ ret[t] # message[t]

====
